---- MODULE Spec2Model ----
(***************************************************************************)
(* Model of src/rag.py: RAGEngine (knowledge loading and TF-IDF / cosine   *)
(* search) and the part of main() that asks one query and reports it.      *)
(*                                                                         *)
(* Texts are sequences of one-character strings.  Indices reported by the  *)
(* engine are 0-based as in the source; TLA+ sequences are 1-based, so     *)
(* documents[i] of the source is documents[i + 1] here.                    *)
(*                                                                         *)
(* Arithmetic is exact integer arithmetic.  The inverse document frequency *)
(* ln((1+n)/(1+df)) + 1 is kept in tenths (LnTenths), a weighted vector is *)
(* kept unnormalised together with its squared norm, and a cosine          *)
(* similarity s >= 0 is kept as the reduced fraction num/den = s^2, which  *)
(* preserves the order of similarities and the tests s = 0, s = 1 and      *)
(* s > cutoff.  Floating-point rounding of the source is not modelled.     *)
(***************************************************************************)
EXTENDS Integers, Sequences, FiniteSets, TLC

VARIABLES
    file,        \* the knowledge source named by knowledge_path
    pc,          \* "Uninitialized", "Ready", "Exited" (sys.exit) or "Aborted"
    exitCode,    \* status passed to sys.exit, -1 while the process runs
    documents,   \* self.documents
    query,       \* argument of the latest search call
    result,      \* what the latest search call returned
    display,     \* what main printed for the latest query
    earlier      \* TRUE when search calls were made before the latest one

vars == <<file, pc, exitCode, documents, query, result, display, earlier>>

(* ---------------------------------------------------------------- bounds *)
MaxLines == 3

(* ------------------------------------------------------------ characters *)
T_ab    == <<"a", "b">>
T_abab  == <<"a", "b", " ", "a", "b">>
T_cd    == <<"c", "d">>
T_spcd  == <<" ", "c", "d">>
T_abcd  == <<"a", "b", " ", "c", "d">>
T_AB    == <<"A", "B">>
T_adot  == <<"a", ".">>
T_sp    == <<" ">>
T_empty == <<>>

\* Raw lines a knowledge file may hold (line terminator left out).
Lines == {T_ab, T_abab, T_spcd, T_abcd, T_adot, T_sp}

\* Query strings handed to search.
Queries == {T_ab, T_abab, T_cd, T_abcd, T_AB, T_adot, T_sp, T_empty}

RECURSIVE SeqsUpTo(_, _)
SeqsUpTo(S, n) ==
    IF n = 0 THEN {<<>>}
    ELSE LET shorter == SeqsUpTo(S, n - 1)
         IN  shorter \cup {Append(s, x) : s \in shorter, x \in S}

Files ==
    {[state |-> "ok", lines |-> ls] : ls \in SeqsUpTo(Lines, MaxLines)}
      \cup {[state |-> "missing", lines |-> <<>>],
            [state |-> "unreadable", lines |-> <<>>]}

IsSpace(c) == c = " "

IsWordChar(c) == c \in {"a", "b", "c", "d", "A", "B"}

Lower(c) == IF c = "A" THEN "a" ELSE IF c = "B" THEN "b" ELSE c

(* ------------------------------------------------------ _load_knowledge *)
RECURSIVE LStrip(_)
LStrip(text) ==
    IF text # <<>> /\ IsSpace(Head(text)) THEN LStrip(Tail(text)) ELSE text

RECURSIVE RStrip(_)
RStrip(text) ==
    IF text # <<>> /\ IsSpace(text[Len(text)])
    THEN RStrip(SubSeq(text, 1, Len(text) - 1))
    ELSE text

\* str.strip()
Strip(text) == RStrip(LStrip(text))

\* [line.strip() for line in f.readlines() if line.strip()]
RECURSIVE StripNonEmpty(_)
StripNonEmpty(lines) ==
    IF lines = <<>> THEN <<>>
    ELSE IF Strip(Head(lines)) # <<>>
         THEN <<Strip(Head(lines))>> \o StripNonEmpty(Tail(lines))
         ELSE StripNonEmpty(Tail(lines))

\* Mutant of LoadKnowledge: a file without a usable line is rejected too.
LoadKnowledge_RejectEmpty(f) ==
    IF f.state = "ok" /\ StripNonEmpty(f.lines) # <<>>
    THEN [exit |-> FALSE, code |-> -1, documents |-> StripNonEmpty(f.lines)]
    ELSE [exit |-> TRUE, code |-> 1, documents |-> <<>>]

\* Outcome of _load_knowledge: the documents read, or sys.exit(1).
LoadKnowledge(f) ==
    IF f.state = "ok"
    THEN [exit |-> FALSE, code |-> -1, documents |-> StripNonEmpty(f.lines)]
    ELSE [exit |-> TRUE, code |-> 1, documents |-> <<>>]

(* ------------------------------------------------------------ tokenizer *)
\* TfidfVectorizer's default analyzer: lower-case, then every maximal run
\* of two or more word characters (token_pattern (?u)\b\w\w+\b).
Flush(run) == IF Len(run) >= 2 THEN <<run>> ELSE <<>>

RECURSIVE Scan(_, _, _)
Scan(text, i, run) ==
    IF i > Len(text) THEN Flush(run)
    ELSE IF IsWordChar(text[i])
         THEN Scan(text, i + 1, Append(run, Lower(text[i])))
         ELSE Flush(run) \o Scan(text, i + 1, <<>>)

Tokenize(text) == Scan(text, 1, <<>>)

Range(s) == {s[i] : i \in DOMAIN s}

\* Raw count of term w in a token sequence (term frequency).
Count(toks, w) == Cardinality({i \in DOMAIN toks : toks[i] = w})

\* The distinct terms of a text.
Terms(text) == Range(Tokenize(text))

\* The fitted vocabulary: every distinct term of the corpus.
Vocabulary(corpus) == UNION {Terms(corpus[i]) : i \in DOMAIN corpus}

\* Natural logarithm of k, in tenths.
LnTenths(k) ==
    CASE k = 1 -> 0  [] k = 2 -> 7  [] k = 3 -> 11 [] k = 4 -> 14
      [] k = 5 -> 16 [] k = 6 -> 18 [] k = 7 -> 19 [] k = 8 -> 21
      [] OTHER -> 22

\* smooth_idf: ln((1 + n) / (1 + df)) + 1, in tenths.
Idf(n, df) == LnTenths(1 + n) - LnTenths(1 + df) + 10

\* The function on S with value F(x) at x, built entry by entry.
Tabulate(S, F(_)) ==
    LET RECURSIVE Go(_)
        Go(R) == IF R = {} THEN <<>>
                 ELSE LET x == CHOOSE y \in R : TRUE
                      IN  (x :> F(x)) @@ Go(R \ {x})
    IN  Go(S)

\* The sequence of F(s[i]), built entry by entry.
MapSeq(s, F(_)) ==
    LET RECURSIVE Go(_)
        Go(t) == IF t = <<>> THEN <<>> ELSE <<F(Head(t))>> \o Go(Tail(t))
    IN  Go(s)

\* Number of token sequences of toks that contain term w (document frequency).
Df(toks, w) == Cardinality({i \in DOMAIN toks : Count(toks[i], w) > 0})

\* Mutant of FitTransform: an empty vocabulary gives rows without columns
\* instead of a ValueError.
FitTransform_NoRaise(corpus) ==
    LET toks == MapSeq(corpus, Tokenize)
        vocab == UNION {Range(toks[i]) : i \in DOMAIN toks}
        idf == Tabulate(vocab, LAMBDA w : Idf(Len(corpus), Df(toks, w)))
        Row(t) == Tabulate(vocab, LAMBDA w : Count(t, w) * idf[w])
    IN  [kind |-> "matrix", rows |-> MapSeq(toks, Row)]

\* vectorizer.fit_transform(corpus): one row of tf * idf weights per text,
\* over the vocabulary of the whole corpus; raises ValueError when that
\* vocabulary is empty.  Rows are kept before the L2 normalisation, which
\* Cosine applies when it divides by the norms.
FitTransform(corpus) ==
    LET toks == MapSeq(corpus, Tokenize)
        vocab == UNION {Range(toks[i]) : i \in DOMAIN toks}
        idf == Tabulate(vocab, LAMBDA w : Idf(Len(corpus), Df(toks, w)))
        Row(t) == Tabulate(vocab, LAMBDA w : Count(t, w) * idf[w])
    IN  IF vocab = {}
        THEN [kind |-> "ValueError", rows |-> <<>>]
        ELSE [kind |-> "matrix", rows |-> MapSeq(toks, Row)]

(* ----------------------------------------------------- cosine similarity *)
RECURSIVE SumOver(_, _, _)
SumOver(S, u, v) ==
    IF S = {} THEN 0
    ELSE LET w == CHOOSE x \in S : TRUE
         IN  u[w] * v[w] + SumOver(S \ {w}, u, v)

Dot(u, v) == SumOver(DOMAIN u, u, v)

RECURSIVE GCD(_, _)
GCD(a, b) == IF b = 0 THEN a ELSE GCD(b, a % b)

Fraction(n, d) == LET g == GCD(n, d) IN [num |-> n \div g, den |-> d \div g]

ScoreZero == Fraction(0, 1)
ScoreOne == Fraction(1, 1)

\* Mutant of Cosine: the dot product, not divided by the norms.
Cosine_Unnormalised(u, v) == Fraction(Dot(u, v) * Dot(u, v), 1)

\* Cosine of the angle between rows u and v, squared; 0 when either is zero.
Cosine(u, v) ==
    LET uv == Dot(u, v)
        uu == Dot(u, u)
        vv == Dot(v, v)
    IN  IF uu = 0 \/ vv = 0 THEN ScoreZero ELSE Fraction(uv * uv, uu * vv)

\* a.num / a.den < b.num / b.den, by comparing continued-fraction expansions
\* (no product of a numerator and a denominator is formed).
RECURSIVE FracLess(_, _, _, _)
FracLess(a, b, c, d) ==
    IF a \div b # c \div d THEN a \div b < c \div d
    ELSE IF c % d = 0 THEN FALSE
    ELSE IF a % b = 0 THEN TRUE
    ELSE FracLess(d, c % d, b, a % b)

ScoreLess(x, y) == FracLess(x.num, x.den, y.num, y.den)

\* cosine_similarity(query_vec, doc_vecs).flatten()
Similarities(query_vec, doc_vecs) ==
    MapSeq(doc_vecs, LAMBDA d : Cosine(query_vec, d))

\* Mutant of ArgMax: the scan keeps the last maximum.
RECURSIVE ArgMaxScan_Last(_, _, _)
ArgMaxScan_Last(sims, i, best) ==
    IF i > Len(sims) THEN best - 1
    ELSE IF ScoreLess(sims[i], sims[best]) THEN ArgMaxScan_Last(sims, i + 1, best)
    ELSE ArgMaxScan_Last(sims, i + 1, i)

ArgMax_LastMaximum(sims) == ArgMaxScan_Last(sims, 2, 1)

\* np.argmax: linear scan keeping the first maximum; 0-based result.
RECURSIVE ArgMaxScan(_, _, _)
ArgMaxScan(sims, i, best) ==
    IF i > Len(sims) THEN best - 1
    ELSE IF ScoreLess(sims[best], sims[i]) THEN ArgMaxScan(sims, i + 1, i)
    ELSE ArgMaxScan(sims, i + 1, best)

ArgMax(sims) == ArgMaxScan(sims, 2, 1)

(* ---------------------------------------------------------------- search *)
None == [kind |-> "None"]

SearchResult(index, score, content) ==
    [kind |-> "SearchResult", index |-> index, score |-> score, content |-> content]

\* Mutant of QueryVec: the first row is taken for the query's.
QueryVec_FirstRow(rows) == rows[1]

\* tfidf_matrix[-1]
QueryVec(rows) == rows[Len(rows)]

\* tfidf_matrix[:-1]
DocVecs(rows) == SubSeq(rows, 1, Len(rows) - 1)

\* Mutant of DocAt: the index counts from the end of the list.
DocAt_FromEnd(docs, idx) == docs[Len(docs) - idx]

\* self.documents[best_idx]
DocAt(docs, idx) == docs[idx + 1]

\* Mutant of OnValueError: the ValueError is not caught.
OnValueError_Raise(docs, q) == [kind |-> "Raise"]

\* The except ValueError branch of search.
OnValueError(docs, q) == None

\* RAGEngine.search(query) on an engine whose self.documents is docs.
search(docs, q) ==
    IF docs = <<>> THEN None
    ELSE LET corpus == docs \o <<q>>
             tfidf_matrix == FitTransform(corpus)
         IN  IF tfidf_matrix.kind = "ValueError" THEN OnValueError(docs, q)
             ELSE LET query_vec == QueryVec(tfidf_matrix.rows)
                      doc_vecs == DocVecs(tfidf_matrix.rows)
                      similarities == Similarities(query_vec, doc_vecs)
                      best_idx == ArgMax(similarities)
                      best_score == similarities[best_idx + 1]
                  IN  SearchResult(best_idx, best_score, DocAt(docs, best_idx))

\* Mutant of DocumentsAfterSearch: the query is appended in place.
DocumentsAfterSearch_Append(docs, q) == docs \o <<q>>

\* self.documents after search: corpus = self.documents + [query] builds a
\* new list, the attribute is not assigned.
DocumentsAfterSearch(docs, q) == docs

(* ------------------------------------------------------------------ main *)
CutoffNum == 1
CutoffDen == 10

\* score > 0.1, on the squared score.
AboveCutoff(score) ==
    FracLess(CutoffNum * CutoffNum, CutoffDen * CutoffDen, score.num, score.den)

\* Mutant of Report: any SearchResult is printed as the answer.
Report_NoCutoff(r) == IF r.kind = "SearchResult" THEN "answer" ELSE "no_info"

\* if result and result.score > 0.1: print the answer, else "No relevant
\* information found".
Report(r) ==
    IF r.kind = "SearchResult" /\ AboveCutoff(r.score) THEN "answer" ELSE "no_info"

(* --------------------------------------------------------------- actions *)
\* Every corpus _load_knowledge can produce from a file of Files.
LoadableCorpora == {StripNonEmpty(ls) : ls \in SeqsUpTo(Lines, MaxLines)}

\* search over the loadable corpora and Queries, evaluated once.
SearchTable == [docs \in LoadableCorpora |-> [q \in Queries |-> search(docs, q)]]

\* engine.search(q): search(docs, q), read from SearchTable where it is there.
EngineSearch(docs, q) ==
    IF docs \in LoadableCorpora /\ q \in Queries
    THEN SearchTable[docs][q]
    ELSE search(docs, q)

Searched == result.kind # "NoCall"

Init ==
    /\ file \in Files
    /\ pc = "Uninitialized"
    /\ exitCode = -1
    /\ documents = <<>>
    /\ query = <<>>
    /\ result = [kind |-> "NoCall"]
    /\ display = "none"
    /\ earlier = FALSE

\* RAGEngine(knowledge_file): __init__ and _load_knowledge.
Construct ==
    /\ pc = "Uninitialized"
    /\ LET loaded == LoadKnowledge(file)
       IN  /\ pc' = IF loaded.exit THEN "Exited" ELSE "Ready"
           /\ exitCode' = loaded.code
           /\ documents' = loaded.documents
    /\ UNCHANGED <<file, query, result, display, earlier>>

\* One call engine.search(q); an exception leaving search aborts the caller.
Search(q) ==
    /\ pc = "Ready"
    /\ LET r == EngineSearch(documents, q)
       IN  /\ result' = r
           /\ pc' = IF r.kind = "Raise" THEN "Aborted" ELSE "Ready"
    /\ documents' = DocumentsAfterSearch(documents, q)
    /\ query' = q
    /\ display' = "none"
    /\ earlier' = Searched
    /\ UNCHANGED <<file, exitCode>>

\* main, from the query on: reject a blank query, else search and report.
MainQuery(q) ==
    /\ pc = "Ready"
    /\ IF Strip(q) = <<>>
       THEN /\ display' = "empty_query"
            /\ UNCHANGED <<pc, documents, query, result, earlier>>
       ELSE LET r == EngineSearch(documents, q)
            IN  /\ result' = r
                /\ pc' = IF r.kind = "Raise" THEN "Aborted" ELSE "Ready"
                /\ display' = IF r.kind = "Raise" THEN "none" ELSE Report(r)
                /\ documents' = DocumentsAfterSearch(documents, q)
                /\ query' = q
                /\ earlier' = Searched
    /\ UNCHANGED <<file, exitCode>>

Next ==
    \/ Construct
    \/ \E q \in Queries : Search(q)
    \/ \E q \in Queries : MainQuery(q)

Spec == Init /\ [][Next]_vars

(* ------------------------------------------------------ claim vocabulary *)
\* The corpus established at construction.
Loaded == StripNonEmpty(file.lines)

IsResult == result.kind = "SearchResult"

\* The bag of the latest search call: the documents followed by the query.
Bag == documents \o <<query>>

\* The query of the latest call has a term in common with some document.
QuerySharesTerm ==
    \E i \in DOMAIN documents : Terms(documents[i]) \cap Terms(query) # {}

\* Texts s and t both hold a term and their term counts are proportional.
Proportional(s, t) ==
    LET a == Tokenize(s)
        b == Tokenize(t)
        V == Range(a) \cup Range(b)
    IN  /\ a # <<>>
        /\ b # <<>>
        /\ \A w \in V : \A v \in V :
               Count(a, w) * Count(b, v) = Count(a, v) * Count(b, w)

\* Similarity of every document to the query of the latest call.
DocSimilarities ==
    LET rows == FitTransform(Bag).rows
    IN  Similarities(rows[Len(rows)], SubSeq(rows, 1, Len(rows) - 1))

(* -------------------------------------------------------------------- C1 *)
\* C1 (as stated): whenever the query of a search call is verbatim equal to
\* a corpus entry, the call returns a SearchResult whose index is that
\* entry's index and whose score is 1.0.
C1_VerbatimQueryReturnsOwnIndex ==
    (pc = "Ready" /\ Searched) =>
        \A i \in DOMAIN documents :
            documents[i] = query =>
                /\ IsResult
                /\ result.index = i - 1
                /\ result.score = ScoreOne

\* C1 (amended): whenever the query is verbatim equal to a corpus entry that
\* holds at least one term, the call returns a SearchResult with score 1.0
\* whose index is the lowest index of a document with term counts
\* proportional to the entry's; that index is never above the entry's own.
C1_VerbatimTermQueryScoresOne ==
    (pc = "Ready" /\ Searched) =>
        \A i \in DOMAIN documents :
            (documents[i] = query /\ Tokenize(query) # <<>>) =>
                /\ IsResult
                /\ result.score = ScoreOne
                /\ result.index + 1 <= i
                /\ Proportional(documents[result.index + 1], query)
                /\ \A j \in 1..result.index : ~Proportional(documents[j], query)

\* C1 witness: the query equals the second entry, which holds a term and has
\* no proportional predecessor, and the call returned index 1 with score 1.
C1_Witness ==
    /\ pc = "Ready" /\ IsResult
    /\ Len(documents) >= 2
    /\ documents[2] = query
    /\ ~Proportional(documents[1], query)
    /\ result.index = 1
    /\ result.score = ScoreOne

C3_LowestIndexOfMaximum ==
    (pc = "Ready" /\ IsResult) =>
        LET sims == DocSimilarities
            best == result.index + 1
        IN  /\ best \in DOMAIN documents
            /\ result.score = sims[best]
            /\ \A j \in DOMAIN documents : ~ScoreLess(sims[best], sims[j])
            /\ \A j \in 1..(best - 1) : ScoreLess(sims[j], sims[best])

\* C3 witness: two documents tie at the maximal similarity and the first
\* document is less similar, but not of similarity 0; the call returned the
\* first of the tied ones.
C3_Witness ==
    /\ pc = "Ready" /\ IsResult
    /\ Len(documents) >= 3
    /\ LET sims == DocSimilarities
       IN  \E i \in DOMAIN documents : \E j \in DOMAIN documents :
               /\ 1 < i /\ i < j
               /\ sims[i] = sims[j]
               /\ ScoreLess(sims[1], sims[i])
               /\ ScoreLess(ScoreZero, sims[1])
               /\ result.index = i - 1

C5_EmptyVocabularyReturnsNone ==
    (Searched /\ documents # <<>> /\ Vocabulary(Bag) = {}) =>
        (result = None /\ pc = "Ready" /\ exitCode = -1)

\* C5 witness: a search over a non-empty corpus whose bag holds no term
\* returned None.
C5_Witness ==
    /\ pc = "Ready" /\ Searched
    /\ documents # <<>>
    /\ Vocabulary(Bag) = {}
    /\ result = None

C7_SearchIsStateless ==
    (pc = "Ready" /\ Searched) => result = search(Loaded, query)

\* C7 witness: a call made after earlier calls returned a SearchResult.
C7_Witness ==
    /\ pc = "Ready" /\ earlier /\ IsResult
    /\ result = search(Loaded, query)

(* -------------------------------------------------------------------- C8 *)
\* C8: the engine is never in a failed state: the process exits only at
\* construction, and once a search was made the engine is Ready and the
\* latest outcome is a SearchResult or None.
C8_SearchKeepsEngineReady ==
    /\ pc \in {"Uninitialized", "Ready", "Exited"}
    /\ pc = "Exited" => ~Searched
    /\ Searched =>
           /\ pc = "Ready"
           /\ exitCode = -1
           /\ result.kind \in {"SearchResult", "None"}

\* C8 witness: after earlier calls, an empty, blank or punctuation-only
\* query over a corpus without terms left the engine Ready with None.
C8_Witness ==
    /\ pc = "Ready" /\ earlier
    /\ documents # <<>>
    /\ query \in {T_empty, T_sp, T_adot}
    /\ result = None

(* -------------------------------------------------------------------- C9 *)
\* C9: in the Ready state the documents are those established at
\* construction, whatever searches were made.
C9_SearchLeavesDocumentsUnchanged ==
    pc = "Ready" => documents = Loaded

\* C9 witness: after several calls, the latest with a query that is no
\* document, the non-empty corpus is the constructed one.
C9_Witness ==
    /\ pc = "Ready" /\ earlier
    /\ documents # <<>>
    /\ \A i \in DOMAIN documents : documents[i] # query
    /\ documents = Loaded

(* ------------------------------------------------------------------- C10 *)
\* C10: a SearchResult designates a document: 0 <= index < number of
\* documents, and content is the document at that index.
C10_ResultDesignatesDocument ==
    IsResult =>
        /\ result.index \in 0..(Len(documents) - 1)
        /\ result.content = documents[result.index + 1]

\* C10 witness: the returned index is that of the last document, next to
\* the query's row, in a corpus whose first document differs from it.
C10_Witness ==
    /\ pc = "Ready" /\ IsResult
    /\ Len(documents) >= 2
    /\ result.index = Len(documents) - 1
    /\ documents[1] # documents[Len(documents)]
    /\ result.content = documents[Len(documents)]

====
